---- MODULE Spec2Model ----
(***************************************************************************)
(* Model of the fuzzymonth crate: parse_month (src/src/lib.rs) resolves a  *)
(* free-form token to one of the twelve months.                            *)
(*                                                                         *)
(* A Rust string is modelled as the sequence of its chars, each char as    *)
(* its Unicode scalar value (a natural number): "jan" is <<106, 97, 110>>. *)
(* Every literal is followed by a comment that spells it.                  *)
(***************************************************************************)
EXTENDS Naturals, Sequences, FiniteSets

VARIABLES value, origin, result, pc

vars == <<value, origin, result, pc>>

(***************************************************************************)
(* enum Month: the twelve variants in declaration order.                   *)
(***************************************************************************)
Month ==
  <<"January", "February", "March", "April", "May", "June", "July",
    "August", "September", "October", "November", "December">>

\* The "no month" outcome of a match whose arms all fell through (_ => {}).
NoMonth == "None"

(***************************************************************************)
(* const INTERNATIONAL_VARIANTS: (spelling, month) pairs in table order.   *)
(***************************************************************************)
INTERNATIONAL_VARIANTS ==
  <<
    <<<<101, 110, 101, 114, 111>>, "January">>,  \* enero (Spanish)
    <<<<106, 97, 110, 118, 105, 101, 114>>, "January">>,  \* janvier (French)
    <<<<106, 97, 110, 117, 97, 114>>, "January">>,  \* januar (German)
    <<<<103, 101, 110, 110, 97, 105, 111>>, "January">>,  \* gennaio (Italian)
    <<<<115, 116, 121, 99, 122, 101, 324>>, "January">>,  \* stycze U+0144 (Polish)
    <<<<1103, 1085, 1074, 1072, 1088, 1100>>, "January">>,  \* U+044F U+043D U+0432 U+0430 U+0440 U+044C (Russian)
    <<<<1610, 1606, 1575, 1610, 1585>>, "January">>,  \* U+064A U+0646 U+0627 U+064A U+0631 (Arabic)
    <<<<19968, 26376>>, "January">>,  \* U+4E00 U+6708 (Chinese)
    <<<<102, 101, 98, 114, 101, 114, 111>>, "February">>,  \* febrero (Spanish)
    <<<<102, 233, 118, 114, 105, 101, 114>>, "February">>,  \* f U+00E9 vrier (French)
    <<<<102, 101, 98, 114, 117, 97, 114>>, "February">>,  \* februar (German)
    <<<<102, 101, 98, 98, 114, 97, 105, 111>>, "February">>,  \* febbraio (Italian)
    <<<<108, 117, 116, 121>>, "February">>,  \* luty (Polish)
    <<<<1092, 1077, 1074, 1088, 1072, 1083, 1100>>, "February">>,  \* U+0444 U+0435 U+0432 U+0440 U+0430 U+043B U+044C (Russian)
    <<<<1601, 1576, 1585, 1575, 1610, 1585>>, "February">>,  \* U+0641 U+0628 U+0631 U+0627 U+064A U+0631 (Arabic)
    <<<<20108, 26376>>, "February">>,  \* U+4E8C U+6708 (Chinese)
    <<<<109, 97, 114, 122, 111>>, "March">>,  \* marzo (Spanish)
    <<<<109, 97, 114, 115>>, "March">>,  \* mars (French)
    <<<<109, 228, 114, 122>>, "March">>,  \* m U+00E4 rz (German)
    <<<<109, 97, 114, 122, 111>>, "March">>,  \* marzo (Italian)
    <<<<109, 97, 114, 122, 101, 99>>, "March">>,  \* marzec (Polish)
    <<<<1084, 1072, 1088, 1090>>, "March">>,  \* U+043C U+0430 U+0440 U+0442 (Russian)
    <<<<1605, 1575, 1585, 1587>>, "March">>,  \* U+0645 U+0627 U+0631 U+0633 (Arabic)
    <<<<19977, 26376>>, "March">>,  \* U+4E09 U+6708 (Chinese)
    <<<<97, 98, 114, 105, 108>>, "April">>,  \* abril (Spanish)
    <<<<97, 118, 114, 105, 108>>, "April">>,  \* avril (French)
    <<<<97, 112, 114, 105, 108>>, "April">>,  \* april (German)
    <<<<97, 112, 114, 105, 108, 101>>, "April">>,  \* aprile (Italian)
    <<<<107, 119, 105, 101, 99, 105, 101, 324>>, "April">>,  \* kwiecie U+0144 (Polish)
    <<<<1072, 1087, 1088, 1077, 1083, 1100>>, "April">>,  \* U+0430 U+043F U+0440 U+0435 U+043B U+044C (Russian)
    <<<<1571, 1576, 1585, 1610, 1604>>, "April">>,  \* U+0623 U+0628 U+0631 U+064A U+0644 (Arabic)
    <<<<22235, 26376>>, "April">>,  \* U+56DB U+6708 (Chinese)
    <<<<109, 97, 121, 111>>, "May">>,  \* mayo (Spanish)
    <<<<109, 97, 105>>, "May">>,  \* mai (French)
    <<<<109, 97, 105>>, "May">>,  \* mai (German)
    <<<<109, 97, 103, 103, 105, 111>>, "May">>,  \* maggio (Italian)
    <<<<109, 97, 106>>, "May">>,  \* maj (Polish)
    <<<<1084, 1072, 1081>>, "May">>,  \* U+043C U+0430 U+0439 (Russian)
    <<<<1605, 1575, 1610, 1608>>, "May">>,  \* U+0645 U+0627 U+064A U+0648 (Arabic)
    <<<<20116, 26376>>, "May">>,  \* U+4E94 U+6708 (Chinese)
    <<<<106, 117, 110, 105, 111>>, "June">>,  \* junio (Spanish)
    <<<<106, 117, 105, 110>>, "June">>,  \* juin (French)
    <<<<106, 117, 110, 105>>, "June">>,  \* juni (German)
    <<<<103, 105, 117, 103, 110, 111>>, "June">>,  \* giugno (Italian)
    <<<<99, 122, 101, 114, 119, 105, 101, 99>>, "June">>,  \* czerwiec (Polish)
    <<<<1080, 1102, 1085, 1100>>, "June">>,  \* U+0438 U+044E U+043D U+044C (Russian)
    <<<<1610, 1608, 1606, 1610, 1608>>, "June">>,  \* U+064A U+0648 U+0646 U+064A U+0648 (Arabic)
    <<<<20845, 26376>>, "June">>,  \* U+516D U+6708 (Chinese)
    <<<<106, 117, 108, 105, 111>>, "July">>,  \* julio (Spanish)
    <<<<106, 117, 105, 108, 108, 101, 116>>, "July">>,  \* juillet (French)
    <<<<106, 117, 108, 105>>, "July">>,  \* juli (German)
    <<<<108, 117, 103, 108, 105, 111>>, "July">>,  \* luglio (Italian)
    <<<<108, 105, 112, 105, 101, 99>>, "July">>,  \* lipiec (Polish)
    <<<<1080, 1102, 1083, 1100>>, "July">>,  \* U+0438 U+044E U+043B U+044C (Russian)
    <<<<1610, 1608, 1604, 1610, 1608>>, "July">>,  \* U+064A U+0648 U+0644 U+064A U+0648 (Arabic)
    <<<<19971, 26376>>, "July">>,  \* U+4E03 U+6708 (Chinese)
    <<<<97, 103, 111, 115, 116, 111>>, "August">>,  \* agosto (Spanish)
    <<<<97, 111, 251, 116>>, "August">>,  \* ao U+00FB t (French)
    <<<<97, 117, 103, 117, 115, 116>>, "August">>,  \* august (German)
    <<<<97, 103, 111, 115, 116, 111>>, "August">>,  \* agosto (Italian)
    <<<<115, 105, 101, 114, 112, 105, 101, 324>>, "August">>,  \* sierpie U+0144 (Polish)
    <<<<1072, 1074, 1075, 1091, 1089, 1090>>, "August">>,  \* U+0430 U+0432 U+0433 U+0443 U+0441 U+0442 (Russian)
    <<<<1571, 1594, 1587, 1591, 1587>>, "August">>,  \* U+0623 U+063A U+0633 U+0637 U+0633 (Arabic)
    <<<<20843, 26376>>, "August">>,  \* U+516B U+6708 (Chinese)
    <<<<115, 101, 112, 116, 105, 101, 109, 98, 114, 101>>, "September">>,  \* septiembre (Spanish)
    <<<<115, 101, 112, 116, 101, 109, 98, 114, 101>>, "September">>,  \* septembre (French)
    <<<<115, 101, 112, 116, 101, 109, 98, 101, 114>>, "September">>,  \* september (German)
    <<<<115, 101, 116, 116, 101, 109, 98, 114, 101>>, "September">>,  \* settembre (Italian)
    <<<<119, 114, 122, 101, 115, 105, 101, 324>>, "September">>,  \* wrzesie U+0144 (Polish)
    <<<<1089, 1077, 1085, 1090, 1103, 1073, 1088, 1100>>, "September">>,  \* U+0441 U+0435 U+043D U+0442 U+044F U+0431 U+0440 U+044C (Russian)
    <<<<1587, 1576, 1578, 1605, 1576, 1585>>, "September">>,  \* U+0633 U+0628 U+062A U+0645 U+0628 U+0631 (Arabic)
    <<<<20061, 26376>>, "September">>,  \* U+4E5D U+6708 (Chinese)
    <<<<111, 99, 116, 117, 98, 114, 101>>, "October">>,  \* octubre (Spanish)
    <<<<111, 99, 116, 111, 98, 114, 101>>, "October">>,  \* octobre (French)
    <<<<111, 107, 116, 111, 98, 101, 114>>, "October">>,  \* oktober (German)
    <<<<111, 116, 116, 111, 98, 114, 101>>, "October">>,  \* ottobre (Italian)
    <<<<112, 97, 378, 100, 122, 105, 101, 114, 110, 105, 107>>, "October">>,  \* pa U+017A dziernik (Polish)
    <<<<1086, 1082, 1090, 1103, 1073, 1088, 1100>>, "October">>,  \* U+043E U+043A U+0442 U+044F U+0431 U+0440 U+044C (Russian)
    <<<<1571, 1603, 1578, 1608, 1576, 1585>>, "October">>,  \* U+0623 U+0643 U+062A U+0648 U+0628 U+0631 (Arabic)
    <<<<21313, 26376>>, "October">>,  \* U+5341 U+6708 (Chinese)
    <<<<110, 111, 118, 105, 101, 109, 98, 114, 101>>, "November">>,  \* noviembre (Spanish)
    <<<<110, 111, 118, 101, 109, 98, 114, 101>>, "November">>,  \* novembre (French)
    <<<<110, 111, 118, 101, 109, 98, 101, 114>>, "November">>,  \* november (German)
    <<<<110, 111, 118, 101, 109, 98, 114, 101>>, "November">>,  \* novembre (Italian)
    <<<<108, 105, 115, 116, 111, 112, 97, 100>>, "November">>,  \* listopad (Polish)
    <<<<1085, 1086, 1103, 1073, 1088, 1100>>, "November">>,  \* U+043D U+043E U+044F U+0431 U+0440 U+044C (Russian)
    <<<<1606, 1608, 1601, 1605, 1576, 1585>>, "November">>,  \* U+0646 U+0648 U+0641 U+0645 U+0628 U+0631 (Arabic)
    <<<<21313, 19968, 26376>>, "November">>,  \* U+5341 U+4E00 U+6708 (Chinese)
    <<<<100, 105, 99, 105, 101, 109, 98, 114, 101>>, "December">>,  \* diciembre (Spanish)
    <<<<100, 233, 99, 101, 109, 98, 114, 101>>, "December">>,  \* d U+00E9 cembre (French)
    <<<<100, 101, 122, 101, 109, 98, 101, 114>>, "December">>,  \* dezember (German)
    <<<<100, 105, 99, 101, 109, 98, 114, 101>>, "December">>,  \* dicembre (Italian)
    <<<<103, 114, 117, 100, 122, 105, 101, 324>>, "December">>,  \* grudzie U+0144 (Polish)
    <<<<1076, 1077, 1082, 1072, 1073, 1088, 1100>>, "December">>,  \* U+0434 U+0435 U+043A U+0430 U+0431 U+0440 U+044C (Russian)
    <<<<1583, 1610, 1587, 1605, 1576, 1585>>, "December">>,  \* U+062F U+064A U+0633 U+0645 U+0628 U+0631 (Arabic)
    <<<<21313, 20108, 26376>>, "December">>  \* U+5341 U+4E8C U+6708 (Chinese)
  >>

(***************************************************************************)
(* const SIMILARITY_THRESHOLD: f64 = 0.75, kept as the fraction 3/4.       *)
(***************************************************************************)
SIMILARITY_THRESHOLD == [num |-> 3, den |-> 4]

(***************************************************************************)
(* const MONTH_NAMES: (canonical name, month) pairs in table order.        *)
(***************************************************************************)
MONTH_NAMES ==
  <<
    <<<<106, 97, 110, 117, 97, 114, 121>>, "January">>,  \* "january"
    <<<<102, 101, 98, 114, 117, 97, 114, 121>>, "February">>,  \* "february"
    <<<<109, 97, 114, 99, 104>>, "March">>,  \* "march"
    <<<<97, 112, 114, 105, 108>>, "April">>,  \* "april"
    <<<<109, 97, 121>>, "May">>,  \* "may"
    <<<<106, 117, 110, 101>>, "June">>,  \* "june"
    <<<<106, 117, 108, 121>>, "July">>,  \* "july"
    <<<<97, 117, 103, 117, 115, 116>>, "August">>,  \* "august"
    <<<<115, 101, 112, 116, 101, 109, 98, 101, 114>>, "September">>,  \* "september"
    <<<<111, 99, 116, 111, 98, 101, 114>>, "October">>,  \* "october"
    <<<<110, 111, 118, 101, 109, 98, 101, 114>>, "November">>,  \* "november"
    <<<<100, 101, 99, 101, 109, 98, 101, 114>>, "December">>  \* "december"
  >>

(***************************************************************************)
(* Chars.  char::is_whitespace is Unicode White_Space; str::to_lowercase   *)
(* is Unicode lowercasing, given here for the blocks the tables and the    *)
(* inputs draw from (Basic Latin, Latin-1, Latin Extended-A, Cyrillic;     *)
(* Arabic and CJK have no case).  One char can lowercase to two: U+0130.   *)
(***************************************************************************)
is_whitespace(c) ==
  \/ c \in 9..13
  \/ c \in {32, 133, 160, 5760, 8232, 8233, 8239, 8287, 12288}
  \/ c \in 8192..8202

is_ascii_digit(c) == c \in 48..57  \* '0'..='9'

\* a lowercasing that knows ASCII only (u8::to_ascii_lowercase)
char_to_ascii_lowercase(c) == IF c \in 65..90 THEN <<c + 32>> ELSE <<c>>

char_to_lowercase(c) ==
  CASE c \in 65..90 -> <<c + 32>>                          \* A-Z
    [] c \in 192..222 /\ c # 215 -> <<c + 32>>             \* U+00C0-U+00DE
    [] c = 304 -> <<105, 775>>                             \* U+0130 -> i, U+0307
    [] c = 376 -> <<255>>                                  \* U+0178 -> U+00FF
    [] c \in 256..311 /\ c % 2 = 0 -> <<c + 1>>            \* U+0100-U+0137
    [] c \in 313..328 /\ c % 2 = 1 -> <<c + 1>>            \* U+0139-U+0148
    [] c \in 330..375 /\ c % 2 = 0 -> <<c + 1>>            \* U+014A-U+0177
    [] c \in 377..382 /\ c % 2 = 1 -> <<c + 1>>            \* U+0179-U+017E
    [] c \in 1024..1039 -> <<c + 80>>                      \* U+0400-U+040F
    [] c \in 1040..1071 -> <<c + 32>>                      \* U+0410-U+042F
    [] OTHER -> <<c>>

RECURSIVE to_lowercase(_)
to_lowercase(s) ==
  IF s = <<>> THEN <<>> ELSE char_to_lowercase(Head(s)) \o to_lowercase(Tail(s))

RECURSIVE trim_start(_)
trim_start(s) ==
  IF s # <<>> /\ is_whitespace(Head(s)) THEN trim_start(Tail(s)) ELSE s

RECURSIVE trim_end(_)
trim_end(s) ==
  IF s # <<>> /\ is_whitespace(s[Len(s)])
  THEN trim_end(SubSeq(s, 1, Len(s) - 1))
  ELSE s

\* a trim that strips the front only (str::trim_start)
trim_start_only(s) == trim_start(s)

trim(s) == trim_end(trim_start(s))

\* let input = value.trim().to_lowercase();
normalize(v) == to_lowercase(trim(v))

(***************************************************************************)
(* First match of parse_month: exact names, abbreviations and numbers.     *)
(***************************************************************************)
match_exact(input) ==
  CASE
    input \in { <<106, 97, 110, 117, 97, 114, 121>>, <<106, 97, 110>>, <<106, 97>>, <<49>>, <<48, 49>> }
         -> "January"  \* january | jan | ja | 1 | 01
 [] input \in { <<102, 101, 98, 114, 117, 97, 114, 121>>, <<102, 101, 98>>, <<50>>, <<48, 50>> }
         -> "February"  \* february | feb | 2 | 02
 [] input \in { <<109, 97, 114, 99, 104>>, <<109, 97, 114>>, <<51>>, <<48, 51>> }
         -> "March"  \* march | mar | 3 | 03
 [] input \in { <<97, 112, 114, 105, 108>>, <<97, 112, 114>>, <<52>>, <<48, 52>> }
         -> "April"  \* april | apr | 4 | 04
 [] input \in { <<109, 97, 121>>, <<53>>, <<48, 53>> }
         -> "May"  \* may | 5 | 05
 [] input \in { <<106, 117, 110, 101>>, <<106, 117, 110>>, <<54>>, <<48, 54>> }
         -> "June"  \* june | jun | 6 | 06
 [] input \in { <<106, 117, 108, 121>>, <<106, 117, 108>>, <<55>>, <<48, 55>> }
         -> "July"  \* july | jul | 7 | 07
 [] input \in { <<97, 117, 103, 117, 115, 116>>, <<97, 117, 103>>, <<56>>, <<48, 56>> }
         -> "August"  \* august | aug | 8 | 08
 [] input \in { <<115, 101, 112, 116, 101, 109, 98, 101, 114>>, <<115, 101, 112>>, <<115, 101, 112, 116>>, <<57>>, <<48, 57>> }
         -> "September"  \* september | sep | sept | 9 | 09
 [] input \in { <<111, 99, 116, 111, 98, 101, 114>>, <<111, 99, 116>>, <<49, 48>> }
         -> "October"  \* october | oct | 10
 [] input \in { <<110, 111, 118, 101, 109, 98, 101, 114>>, <<110, 111, 118>>, <<49, 49>> }
         -> "November"  \* november | nov | 11
 [] input \in { <<100, 101, 99, 101, 109, 98, 101, 114>>, <<100, 101, 99>>, <<49, 50>> }
         -> "December"  \* december | dec | 12
 [] OTHER -> NoMonth

(***************************************************************************)
(* input.chars().take_while(char::is_ascii_digit).collect::<String>()      *)
(***************************************************************************)
RECURSIVE take_while_ascii_digit(_)
take_while_ascii_digit(s) ==
  IF s # <<>> /\ is_ascii_digit(Head(s))
  THEN <<Head(s)>> \o take_while_ascii_digit(Tail(s))
  ELSE <<>>

(***************************************************************************)
(* str::parse::<u32>.  A u32 is kept as two 16-bit limbs, hi * 2^16 + lo,  *)
(* so that the 32-bit width is exact; each digit is a checked multiply by  *)
(* ten and a checked add, and an overflow or an empty string is an Err.    *)
(***************************************************************************)
LimbBase == 65536

U32(hi, lo) == [hi |-> hi, lo |-> lo]

ParseOk(n) == [ok |-> TRUE, num |-> n]

ParseErr == [ok |-> FALSE, num |-> U32(0, 0)]

\* u32::checked_mul(n, 10)
checked_mul10(n) ==
  LET lo == n.lo * 10
      hi == n.hi * 10 + (lo \div LimbBase)
  IN IF hi >= LimbBase THEN ParseErr ELSE ParseOk(U32(hi, lo % LimbBase))

\* an add that wraps around at 2^32 (u32::wrapping_add)
wrapping_add(n, d) ==
  LET lo == n.lo + d
      hi == n.hi + (lo \div LimbBase)
  IN ParseOk(U32(hi % LimbBase, lo % LimbBase))

\* u32::checked_add(n, d) for a digit d
checked_add(n, d) ==
  LET lo == n.lo + d
      hi == n.hi + (lo \div LimbBase)
  IN IF hi >= LimbBase THEN ParseErr ELSE ParseOk(U32(hi, lo % LimbBase))

RECURSIVE parse_digits(_, _)
parse_digits(s, acc) ==
  IF s = <<>> THEN ParseOk(acc)
  ELSE LET m == checked_mul10(acc)
       IN IF ~m.ok THEN ParseErr
          ELSE LET a == checked_add(m.num, Head(s) - 48)
               IN IF ~a.ok THEN ParseErr ELSE parse_digits(Tail(s), a.num)

parse_u32(s) == IF s = <<>> THEN ParseErr ELSE parse_digits(s, U32(0, 0))

\* a range check that leaves out its upper end: (1..12).contains(&num)
in_month_range_exclusive(n) == n.hi = 0 /\ n.lo >= 1 /\ n.lo < 12

\* (1..=12).contains(&num)
in_month_range(n) == n.hi = 0 /\ n.lo >= 1 /\ n.lo <= 12

\* if (1..=12).contains(&num) { return Ok(match num { 1 => January, ... }) }
month_of_number(n) ==
  IF in_month_range(n)
  THEN CASE n.lo = 1 -> "January"
         [] n.lo = 2 -> "February"
         [] n.lo = 3 -> "March"
         [] n.lo = 4 -> "April"
         [] n.lo = 5 -> "May"
         [] n.lo = 6 -> "June"
         [] n.lo = 7 -> "July"
         [] n.lo = 8 -> "August"
         [] n.lo = 9 -> "September"
         [] n.lo = 10 -> "October"
         [] n.lo = 11 -> "November"
         [] n.lo = 12 -> "December"
  ELSE NoMonth

(***************************************************************************)
(* for (variant, month) in INTERNATIONAL_VARIANTS: first equal entry wins. *)
(***************************************************************************)
RECURSIVE find_variant(_, _)
find_variant(input, k) ==
  IF k > Len(INTERNATIONAL_VARIANTS) THEN NoMonth
  ELSE IF input = INTERNATIONAL_VARIANTS[k][1] THEN INTERNATIONAL_VARIANTS[k][2]
  ELSE find_variant(input, k + 1)

match_international(input) == find_variant(input, 1)

\* a denylist that lost "marsh"
denylisted_without_marsh(input) ==
  input \in { <<106, 117, 108, 105, 101>>,             \* "julie"
              <<106, 97, 110, 117, 111, 114, 105>> }   \* "januori"

\* "marsh" | "julie" | "januori" => return Err(..)
denylisted(input) ==
  input \in { <<109, 97, 114, 115, 104>>,              \* "marsh"
              <<106, 117, 108, 105, 101>>,             \* "julie"
              <<106, 97, 110, 117, 111, 114, 105>> }   \* "januori"

(***************************************************************************)
(* strsim::levenshtein over chars, as strsim computes it: one cache row,   *)
(* updated in place for every char of a.                                   *)
(***************************************************************************)
Min(x, y) == IF x <= y THEN x ELSE y

Max(x, y) == IF x >= y THEN x ELSE y

\* a substitution counted as a deletion and an insertion
substitution_cost_two(a_elem, b_elem) == IF a_elem # b_elem THEN 2 ELSE 0

\* usize::from(a_elem != b_elem)
substitution_cost(a_elem, b_elem) == IF a_elem # b_elem THEN 1 ELSE 0

RECURSIVE levenshtein_inner(_, _, _, _, _, _)
levenshtein_inner(a_elem, b, cache, j, res, distance_b) ==
  IF j > Len(b) THEN [cache |-> cache, res |-> res]
  ELSE LET distance_a == distance_b + substitution_cost(a_elem, b[j])
           up == cache[j]
           r == Min(res + 1, Min(distance_a, up + 1))
       IN levenshtein_inner(a_elem, b, [cache EXCEPT ![j] = r], j + 1, r, up)

RECURSIVE levenshtein_outer(_, _, _, _, _)
levenshtein_outer(a, b, i, cache, res) ==
  IF i > Len(a) THEN res
  ELSE LET row == levenshtein_inner(a[i], b, cache, 1, i, i - 1)
       IN \* row.res <= i + Len(b): the test is never true, and makes TLC
          \* compute this row before the next one is built on it
          IF row.res > i + Len(b) THEN row.res
          ELSE levenshtein_outer(a, b, i + 1, row.cache, row.res)

levenshtein(a, b) ==
  levenshtein_outer(a, b, 1, [j \in 1..Len(b) |-> j], Len(b))

(***************************************************************************)
(* strsim::normalized_levenshtein: 1.0 if both are empty, else             *)
(* 1.0 - distance / max(a.chars().count(), b.chars().count()).  The f64 is *)
(* kept as the exact fraction num/den: distance and lengths are small      *)
(* integers, so two results compare as f64 exactly as their fractions do,  *)
(* and a result compares to 0.75 exactly as its fraction compares to 3/4.  *)
(***************************************************************************)
\* a normalisation by the shorter of the two lengths
normalized_by_shortest(a, b) ==
  IF a = <<>> \/ b = <<>> THEN [num |-> IF a = b THEN 1 ELSE 0, den |-> 1]
  ELSE LET shortest == Min(Len(a), Len(b))
       IN [num |-> IF levenshtein(a, b) > shortest THEN 0
                   ELSE shortest - levenshtein(a, b),
           den |-> shortest]

normalized_levenshtein(a, b) ==
  IF a = <<>> /\ b = <<>> THEN [num |-> 1, den |-> 1]
  ELSE LET longest == Max(Len(a), Len(b))
       IN [num |-> longest - levenshtein(a, b), den |-> longest]

\* f64::partial_cmp(x, y).unwrap_or(Ordering::Greater); no NaN arises
partial_cmp(x, y) ==
  IF x.num * y.den < y.num * x.den THEN "Less"
  ELSE IF x.num * y.den > y.num * x.den THEN "Greater"
  ELSE "Equal"

\* a threshold that must be exceeded: similarity > SIMILARITY_THRESHOLD
exceeds_threshold(similarity) ==
  partial_cmp(similarity, SIMILARITY_THRESHOLD) = "Greater"

\* similarity >= SIMILARITY_THRESHOLD
meets_threshold(similarity) ==
  partial_cmp(similarity, SIMILARITY_THRESHOLD) \in {"Greater", "Equal"}

\* MONTH_NAMES.iter().map(|(name, month)| (normalized_levenshtein(&input, name), month))
RECURSIVE similarities_from(_, _)
similarities_from(input, k) ==
  IF k > Len(MONTH_NAMES) THEN <<>>
  ELSE << [similarity |-> normalized_levenshtein(input, MONTH_NAMES[k][1]),
           month |-> MONTH_NAMES[k][2]] >>
         \o similarities_from(input, k + 1)

similarities(input) == similarities_from(input, 1)

(***************************************************************************)
(* Iterator::max_by: a reduce that keeps the accumulator only when it      *)
(* compares Greater than the next element.                                 *)
(***************************************************************************)
\* a reduce that also keeps the accumulator on a tie (the first maximum wins)
max_by_keep_on_tie(acc, next) ==
  partial_cmp(acc.similarity, next.similarity) \in {"Greater", "Equal"}

max_by_keep(acc, next) == partial_cmp(acc.similarity, next.similarity) = "Greater"

RECURSIVE max_by_from(_, _, _)
max_by_from(items, k, acc) ==
  IF k > Len(items) THEN acc
  ELSE max_by_from(items, k + 1, IF max_by_keep(acc, items[k]) THEN acc ELSE items[k])

max_by(items) == max_by_from(items, 2, items[1])

best_match(input) == max_by(similarities(input))

(***************************************************************************)
(* Last match of parse_month ("Could also handle common typos              *)
(* explicitly"): the first match again, without "ja".                      *)
(***************************************************************************)
match_fallback(input) ==
  CASE
    input \in { <<106, 97, 110, 117, 97, 114, 121>>, <<106, 97, 110>>, <<49>>, <<48, 49>> }
         -> "January"  \* january | jan | 1 | 01
 [] input \in { <<102, 101, 98, 114, 117, 97, 114, 121>>, <<102, 101, 98>>, <<50>>, <<48, 50>> }
         -> "February"  \* february | feb | 2 | 02
 [] input \in { <<109, 97, 114, 99, 104>>, <<109, 97, 114>>, <<51>>, <<48, 51>> }
         -> "March"  \* march | mar | 3 | 03
 [] input \in { <<97, 112, 114, 105, 108>>, <<97, 112, 114>>, <<52>>, <<48, 52>> }
         -> "April"  \* april | apr | 4 | 04
 [] input \in { <<109, 97, 121>>, <<53>>, <<48, 53>> }
         -> "May"  \* may | 5 | 05
 [] input \in { <<106, 117, 110, 101>>, <<106, 117, 110>>, <<54>>, <<48, 54>> }
         -> "June"  \* june | jun | 6 | 06
 [] input \in { <<106, 117, 108, 121>>, <<106, 117, 108>>, <<55>>, <<48, 55>> }
         -> "July"  \* july | jul | 7 | 07
 [] input \in { <<97, 117, 103, 117, 115, 116>>, <<97, 117, 103>>, <<56>>, <<48, 56>> }
         -> "August"  \* august | aug | 8 | 08
 [] input \in { <<115, 101, 112, 116, 101, 109, 98, 101, 114>>, <<115, 101, 112>>, <<115, 101, 112, 116>>, <<57>>, <<48, 57>> }
         -> "September"  \* september | sep | sept | 9 | 09
 [] input \in { <<111, 99, 116, 111, 98, 101, 114>>, <<111, 99, 116>>, <<49, 48>> }
         -> "October"  \* october | oct | 10
 [] input \in { <<110, 111, 118, 101, 109, 98, 101, 114>>, <<110, 111, 118>>, <<49, 49>> }
         -> "November"  \* november | nov | 11
 [] input \in { <<100, 101, 99, 101, 109, 98, 101, 114>>, <<100, 101, 99>>, <<49, 50>> }
         -> "December"  \* december | dec | 12
 [] OTHER -> NoMonth

(***************************************************************************)
(* Result<Month, ValidationError>, with the return site in `at`.           *)
(***************************************************************************)
Ok(month, at) == [ok |-> TRUE, month |-> month, message |-> <<>>, at |-> at]

\* "Invalid month: {shown}. Enter a month from January to December"
invalid_month_text(shown) ==
  <<73, 110, 118, 97, 108, 105, 100, 32, 109, 111, 110, 116, 104, 58, 32>>
    \o shown
    \o <<46, 32, 69, 110, 116, 101, 114, 32, 97, 32, 109, 111, 110, 116, 104, 32,
         102, 114, 111, 109, 32, 74, 97, 110, 117, 97, 114, 121, 32, 116, 111, 32,
         68, 101, 99, 101, 109, 98, 101, 114>>

\* a message that shows the normalized input: format!("Invalid month: {input}. ...")
format_invalid_month_input(v) == invalid_month_text(normalize(v))

\* ValidationError::InvalidEnumValue(format!(
\*   "Invalid month: {value}. Enter a month from January to December"))
format_invalid_month(v) == invalid_month_text(v)

Err(v, at) ==
  [ok |-> FALSE, month |-> NoMonth, message |-> format_invalid_month(v), at |-> at]

(***************************************************************************)
(* pub fn parse_month(value: &str) -> Result<Month, ValidationError>       *)
(***************************************************************************)
parse_month(v) ==
  LET input == normalize(v)
      exact == match_exact(input)
      parsed == parse_u32(take_while_ascii_digit(input))
      by_number == IF parsed.ok THEN month_of_number(parsed.num) ELSE NoMonth
      variant == match_international(input)
      best == best_match(input)
      fallback == match_fallback(input)
  IN IF exact # NoMonth THEN Ok(exact, "exact")
     ELSE IF by_number # NoMonth THEN Ok(by_number, "number")
     ELSE IF variant # NoMonth THEN Ok(variant, "international")
     ELSE IF denylisted(input) THEN Err(v, "denylist")
     ELSE IF meets_threshold(best.similarity) THEN Ok(best.month, "fuzzy")
     ELSE IF fallback # NoMonth THEN Ok(fallback, "fallback")
     ELSE Err(v, "reject")

(***************************************************************************)
(* Bounds of the inputs.                                                   *)
(***************************************************************************)
\* at most MaxPad whitespace chars on each side of an input
MaxPad == 1

\* at most MaxUpper chars of a spelling are upper-cased (or all of them)
MaxUpper == 1

\* digit strings of up to MaxDigits digits (and the ten-digit ones below)
MaxDigits == 2

(***************************************************************************)
(* Input alphabets.                                                        *)
(***************************************************************************)
WhitespaceSample == {32, 160}  \* space, U+00A0 no-break space

AsciiLower == 97..122  \* a-z

AsciiDigits == 48..57  \* 0-9

PunctuationSample == {33, 35, 45, 46, 64, 95}  \* ! # - . @ _

NoiseChars == AsciiDigits \cup PunctuationSample

AppendChars == AsciiLower \cup AsciiDigits \cup PunctuationSample

\* the upper-case form of a char of the tables (chars without case are kept)
Uppercase(c) ==
  CASE c \in 97..122 -> c - 32
    [] c \in 224..254 /\ c # 247 -> c - 32
    [] c \in 257..328 /\ char_to_lowercase(c - 1) = <<c>> -> c - 1
    [] c \in 331..382 /\ char_to_lowercase(c - 1) = <<c>> -> c - 1
    [] c \in 1072..1103 -> c - 32
    [] OTHER -> c

UpperAt(s, U) == [i \in 1..Len(s) |-> IF i \in U THEN Uppercase(s[i]) ELSE s[i]]

\* s with at most MaxUpper chars upper-cased, and s all upper-cased
CaseVariants(s) ==
  {UpperAt(s, U) : U \in {T \in SUBSET (1..Len(s)) : Cardinality(T) <= MaxUpper}}
    \cup {UpperAt(s, 1..Len(s))}

\* a run of up to MaxPad copies of one whitespace char
WhitespaceRuns == {[i \in 1..n |-> c] : n \in 0..MaxPad, c \in WhitespaceSample}

\* the whitespace put around an input: a run on the left, a run on the right
Pads == WhitespaceRuns \X WhitespaceRuns

\* the decimal digits of n
RECURSIVE Decimal(_)
Decimal(n) == IF n < 10 THEN <<48 + n>> ELSE Decimal(n \div 10) \o <<48 + (n % 10)>>

(***************************************************************************)
(* The inputs parse_month is called with.  A call keeps how its input was  *)
(* built in `origin`: the family, the spelling it was built from, and the  *)
(* month that spelling stands for (NoMonth when the family has none).      *)
(***************************************************************************)
Call(family, base, month, v) ==
  /\ value = v
  /\ origin = [family |-> family, base |-> base, month |-> month]

\* the forms registered for month k: name, 3-letter abbreviation, "ja",
\* "sept", the number and the zero-padded number
RegisteredForms(k) ==
  LET name == MONTH_NAMES[k][1]
  IN {name, SubSeq(name, 1, 3), Decimal(k)}
       \cup (IF k < 10 THEN {<<48>> \o Decimal(k)} ELSE {})
       \cup (IF k = 1 THEN {<<106, 97>>} ELSE {})              \* "ja"
       \cup (IF k = 9 THEN {<<115, 101, 112, 116>>} ELSE {})   \* "sept"

ExactInputs ==
  \E k \in 1..12 : \E f \in RegisteredForms(k) :
    \E c \in CaseVariants(f) : \E p \in Pads :
      Call("exact", f, Month[k], p[1] \o c \o p[2])

InternationalInputs ==
  \E k \in 1..Len(INTERNATIONAL_VARIANTS) :
    \E c \in CaseVariants(INTERNATIONAL_VARIANTS[k][1]) : \E p \in Pads :
      Call("international", INTERNATIONAL_VARIANTS[k][1],
           INTERNATIONAL_VARIANTS[k][2], p[1] \o c \o p[2])

DenylistTokens ==
  { <<109, 97, 114, 115, 104>>,              \* "marsh"
    <<106, 117, 108, 105, 101>>,             \* "julie"
    <<106, 97, 110, 117, 111, 114, 105>> }   \* "januori"

DenylistInputs ==
  \E t \in DenylistTokens : \E c \in CaseVariants(t) : \E p \in Pads :
    Call("denylist", t, NoMonth, p[1] \o c \o p[2])

\* every string of 1..MaxDigits digits
DigitStrings == UNION {[1..n -> AsciiDigits] : n \in 1..MaxDigits}

\* 4294967295 (u32::MAX), 4294967296 (2^32), ..., 4294967309 (2^32 + 13)
TenDigitStrings == {<<52, 50, 57, 52, 57, 54>> \o Decimal(n) : n \in 7295..7309}

\* what may follow the digits: nothing, st, nd, rd, th, xyz, january
NumberSuffixes ==
  { <<>>, <<115, 116>>, <<110, 100>>, <<114, 100>>, <<116, 104>>,
    <<120, 121, 122>>, <<106, 97, 110, 117, 97, 114, 121>> }

NumberInputs ==
  \E d \in DigitStrings \cup TenDigitStrings :
    \/ \E s \in NumberSuffixes : Call("number", d, NoMonth, d \o s)
    \/ \E p \in Pads : Call("number", d, NoMonth, p[1] \o d \o p[2])

\* a canonical name and one more char
AppendInputs ==
  \E k \in 1..12 : \E c \in AppendChars :
    Call("append", MONTH_NAMES[k][1], Month[k], MONTH_NAMES[k][1] \o <<c>>)

\* "xxx" + name + "yyy"
SurroundInputs ==
  \E k \in 1..12 :
    Call("surround", MONTH_NAMES[k][1], Month[k],
         <<120, 120, 120>> \o MONTH_NAMES[k][1] \o <<121, 121, 121>>)

\* a canonical name with one char after the first replaced by a noise char
NoiseInputs ==
  \E k \in 1..12 : \E i \in 2..Len(MONTH_NAMES[k][1]) : \E c \in NoiseChars :
    Call("noise", MONTH_NAMES[k][1], Month[k], [MONTH_NAMES[k][1] EXCEPT ![i] = c])

\* a canonical name with one char left out
DeleteInputs ==
  \E k \in 1..12 : \E i \in 1..Len(MONTH_NAMES[k][1]) :
    Call("delete", MONTH_NAMES[k][1], Month[k],
         SubSeq(MONTH_NAMES[k][1], 1, i - 1)
           \o SubSeq(MONTH_NAMES[k][1], i + 1, Len(MONTH_NAMES[k][1])))

\* two names of one length mixed: where they differ the input has the char
\* of either, or an 'x'
RECURSIVE Blends(_, _)
Blends(a, b) ==
  IF a = <<>> THEN {<<>>}
  ELSE {<<c>> \o rest :
          c \in {Head(a), Head(b)} \cup (IF Head(a) = Head(b) THEN {} ELSE {120}),
          rest \in Blends(Tail(a), Tail(b))}

\* "june"/"july" and "november"/"december"
BlendInputs ==
  \E p \in {<<6, 7>>, <<11, 12>>} :
    \E v \in Blends(MONTH_NAMES[p[1]][1], MONTH_NAMES[p[2]][1]) :
      Call("blend", MONTH_NAMES[p[1]][1], NoMonth, v)

\* the misspellings of test_fuzzy_matches, each with the month the test expects
FuzzyTestCases ==
  {
    <<<<106, 97, 110, 117, 114, 97, 114, 121>>, "January">>,  \* janurary
    <<<<102, 101, 98, 117, 114, 97, 114, 121>>, "February">>,  \* feburary
    <<<<102, 101, 98, 117, 97, 114, 121>>, "February">>,  \* febuary
    <<<<109, 97, 114, 104>>, "March">>,  \* marh
    <<<<97, 112, 112, 114, 105, 108>>, "April">>,  \* appril
    <<<<97, 112, 114, 121, 108>>, "April">>,  \* apryl
    <<<<97, 103, 117, 115, 116>>, "August">>,  \* agust
    <<<<97, 117, 103, 115, 116>>, "August">>,  \* augst
    <<<<115, 101, 112, 116, 109, 98, 101, 114>>, "September">>,  \* septmber
    <<<<115, 101, 112, 101, 116, 101, 109, 98, 101, 114>>, "September">>,  \* sepetember
    <<<<111, 99, 107, 116, 111, 98, 101, 114>>, "October">>,  \* ocktober
    <<<<110, 111, 118, 101, 109, 101, 98, 101, 114>>, "November">>,  \* novemeber
    <<<<100, 101, 99, 99, 101, 109, 98, 101, 114>>, "December">>   \* deccember
  }

TypoInputs == \E c \in FuzzyTestCases : Call("typo", c[1], c[2], c[1])

\* nothing but whitespace
BlankInputs == \E p \in Pads : Call("blank", <<>>, NoMonth, p[1] \o p[2])

(***************************************************************************)
(* The state: one call of parse_month.  `value` is the argument, `origin`  *)
(* how the argument was built, `result` what the call returned.            *)
(***************************************************************************)
Pending == [ok |-> FALSE, month |-> NoMonth, message |-> <<>>, at |-> "pending"]

Init ==
  /\ \/ ExactInputs
     \/ InternationalInputs
     \/ DenylistInputs
     \/ NumberInputs
     \/ AppendInputs
     \/ SurroundInputs
     \/ NoiseInputs
     \/ DeleteInputs
     \/ BlendInputs
     \/ TypoInputs
     \/ BlankInputs
  /\ result = Pending
  /\ pc = "call"

ParseMonth ==
  /\ pc = "call"
  /\ result' = parse_month(value)
  /\ pc' = "returned"
  /\ UNCHANGED <<value, origin>>

Next == ParseMonth

Spec == Init /\ [][Next]_vars

(***************************************************************************)
(* What the claims speak of, stated apart from parse_month.                *)
(***************************************************************************)
Returned == pc = "returned"

\* the maximal leading run of ASCII digits of s
LeadingDigits(s) ==
  SubSeq(s, 1, Cardinality({n \in 1..Len(s) : \A i \in 1..n : s[i] \in 48..57}))

\* the decimal value of a digit string, leading zeros allowed; every value
\* of three or more significant digits is given as 100
DecimalValue(d) ==
  LET zeros == Cardinality({n \in 1..Len(d) : \A i \in 1..n : d[i] = 48})
      s == SubSeq(d, zeros + 1, Len(d))
  IN CASE Len(s) = 0 -> 0
       [] Len(s) = 1 -> s[1] - 48
       [] Len(s) = 2 -> 10 * (s[1] - 48) + (s[2] - 48)
       [] OTHER -> 100

OnlyDigits(s) == s # <<>> /\ \A i \in 1..Len(s) : s[i] \in 48..57

\* "Invalid month: " + shown + ". Enter a month from January to December"
InvalidMonthMessage(shown) ==
  <<73, 110, 118, 97, 108, 105, 100, 32, 109, 111, 110, 116, 104, 58, 32>>
    \o shown
    \o <<46, 32, 69, 110, 116, 101, 114, 32, 97, 32, 109, 111, 110, 116, 104, 32,
         102, 114, 111, 109, 32, 74, 97, 110, 117, 97, 114, 121, 32, 116, 111, 32,
         68, 101, 99, 101, 109, 98, 101, 114>>

\* the edit distance of the input to the k-th canonical name, and the longer
\* of the two lengths
Distance(input, k) == levenshtein(input, MONTH_NAMES[k][1])

Longest(input, k) == Max(Len(input), Len(MONTH_NAMES[k][1]))

\* for every canonical name k: <<k, distance, longest>>
Distances(input) == {<<k, Distance(input, k), Longest(input, k)>> : k \in 1..12}

\* the canonical names whose similarity 1 - distance/longest to the input is
\* the greatest
ClosestNames(input) ==
  LET D == Distances(input)
  IN {p[1] : p \in {p \in D : \A q \in D :
                                (p[3] - p[2]) * q[3] >= (q[3] - q[2]) * p[3]}}

Earliest(S) == CHOOSE k \in S : \A j \in S : k <= j

Latest(S) == CHOOSE k \in S : \A j \in S : k >= j

(***************************************************************************)
(* The claims.                                                             *)
(***************************************************************************)

\* C1: every registered exact form of a month (name, 3-letter abbreviation,
\* "ja", "sep"/"sept", number, zero-padded number), in any mix of case and
\* with whitespace around it, resolves to that month.
C1_ExactFormsResolve ==
  (Returned /\ origin.family = "exact")
    => (result.ok /\ result.month = origin.month)

\* " Sept" + whitespace: upper-cased and padded on both sides
C1_Witness ==
  /\ Returned
  /\ origin.family = "exact"
  /\ origin.base = <<115, 101, 112, 116>>
  /\ Len(value) = 6
  /\ is_whitespace(value[1]) /\ value[2] = 83 /\ is_whitespace(value[6])
  /\ result.ok /\ result.month = "September"

\* C2: when the leading run of ASCII digits of the normalized input is not
\* empty and has a value v in 1..12, the result is the month of index v,
\* whatever follows the digits.
C2_NumericPrefixResolves ==
  Returned =>
    LET d == LeadingDigits(normalize(value))
    IN (d # <<>> /\ DecimalValue(d) \in 1..12)
         => (result.ok /\ result.month = Month[DecimalValue(d)])

\* "2january" is February
C2_Witness ==
  /\ Returned
  /\ value = <<50, 106, 97, 110, 117, 97, 114, 121>>
  /\ result.ok /\ result.month = "February" /\ result.at = "number"

\* C3: an input whose trimmed form is all ASCII digits with value 0 or at
\* least 13 is rejected, also when the value does not fit a u32.
C3_OutOfRangeNumbersRejected ==
  Returned =>
    ((OnlyDigits(trim(value)) /\ DecimalValue(trim(value)) \notin 1..12)
       => ~result.ok)

\* "4294967297" (2^32 + 1) is rejected
C3_Witness ==
  /\ Returned
  /\ value = <<52, 50, 57, 52, 57, 54, 55, 50, 57, 55>>
  /\ ~result.ok /\ result.at = "reject"

\* C4: an input whose normalized form is "marsh", "julie" or "januori" is
\* rejected, whatever its similarity to a canonical name.
C4_DenylistedRejected ==
  (Returned /\ normalize(value) \in DenylistTokens) => ~result.ok

\* a re-cased or padded "marsh" is rejected by the denylist although it is
\* within the threshold of "march"
C4_Witness ==
  /\ Returned
  /\ normalize(value) = <<109, 97, 114, 115, 104>>
  /\ value # normalize(value)
  /\ ~result.ok /\ result.at = "denylist"
  /\ 4 * Distance(normalize(value), 3) <= Longest(normalize(value), 3)

\* C5: a canonical name with one char appended resolves to the name's month;
\* "xxx" + name + "yyy" is rejected.
C5_AppendResolvesSurroundRejected ==
  Returned =>
    /\ origin.family = "append" => (result.ok /\ result.month = origin.month)
    /\ origin.family = "surround" => ~result.ok

\* "mayx" is May, by the fuzzy matcher
C5_Witness ==
  /\ Returned
  /\ origin.family = "append"
  /\ value = <<109, 97, 121, 120>>
  /\ result.ok /\ result.month = "May" /\ result.at = "fuzzy"

\* C6 as claimed: for every canonical name, replacing one char after the
\* first by a digit or punctuation char resolves to the name's month by the
\* fuzzy matcher.
C6_NoiseResolves ==
  (Returned /\ origin.family = "noise")
    => (result.ok /\ result.month = origin.month /\ result.at = "fuzzy")

\* C6 amended: so it is for every canonical name of four chars or more; for
\* "may" the replacement is rejected.
C6_NoiseResolvesFromFourChars ==
  (Returned /\ origin.family = "noise") =>
    IF Len(origin.base) >= 4
    THEN result.ok /\ result.month = origin.month /\ result.at = "fuzzy"
    ELSE ~result.ok

\* "j@nuary" is January, by the fuzzy matcher
C6_Witness ==
  /\ Returned
  /\ origin.family = "noise"
  /\ value = <<106, 64, 110, 117, 97, 114, 121>>
  /\ result.ok /\ result.month = "January" /\ result.at = "fuzzy"

\* C7: every entry of the international variant table, in any case and with
\* whitespace around it, resolves to the entry's month; a spelling listed
\* twice, or listed as a canonical name too, has one month.
C7_InternationalVariantsResolve ==
  (Returned /\ origin.family = "international") =>
    /\ result.ok /\ result.month = origin.month
    /\ \A k \in 1..Len(INTERNATIONAL_VARIANTS) :
         INTERNATIONAL_VARIANTS[k][1] = origin.base
           => INTERNATIONAL_VARIANTS[k][2] = result.month
    /\ \A k \in 1..12 :
         MONTH_NAMES[k][1] = origin.base => MONTH_NAMES[k][2] = result.month

\* "stycze" + U+0143 (the upper-case of U+0144) is January
C7_Witness ==
  /\ Returned
  /\ origin.family = "international"
  /\ value = <<115, 116, 121, 99, 122, 101, 323>>
  /\ result.ok /\ result.month = "January" /\ result.at = "international"

\* C8: a failed call carries the message "Invalid month: " + the input as
\* passed + ". Enter a month from January to December", never the message
\* made from the normalized input.
C8_ErrorEchoesOriginal ==
  (Returned /\ ~result.ok) =>
    /\ result.message = InvalidMonthMessage(value)
    /\ value # normalize(value)
         => result.message # InvalidMonthMessage(normalize(value))

\* " Julie": a denylisted token that normalization changes
C8_Witness ==
  /\ Returned
  /\ ~result.ok /\ result.at = "denylist"
  /\ is_whitespace(value[1]) /\ value[2] = 74
  /\ value # normalize(value)
  /\ Len(result.message) = Len(value) + 55

\* C9 as claimed: when two or more canonical names share the greatest
\* similarity and the fuzzy matcher accepts, the earliest of them in table
\* order is returned.
C9_FirstMaximumWins ==
  (Returned /\ result.at = "fuzzy"
     /\ Cardinality(ClosestNames(normalize(value))) >= 2)
    => result.month = Month[Earliest(ClosestNames(normalize(value)))]

\* C9 amended: the latest of them in table order is returned.
C9_LastMaximumWins ==
  (Returned /\ result.at = "fuzzy"
     /\ Cardinality(ClosestNames(normalize(value))) >= 2)
    => result.month = Month[Latest(ClosestNames(normalize(value)))]

\* "jule" is as close to "june" as to "july", and is July
C9_Witness ==
  /\ Returned
  /\ value = <<106, 117, 108, 101>>
  /\ ClosestNames(value) = {6, 7}
  /\ result.ok /\ result.month = "July" /\ result.at = "fuzzy"

\* C10: an input that no earlier stage decides succeeds exactly when
\* 4 * distance <= longest length for some canonical name; the empty and
\* the blank input are rejected; the fallback match never returns, as what
\* it would match the first match has returned already.
C10_ThresholdDecides ==
  Returned =>
    /\ result.at # "fallback"
    /\ match_fallback(normalize(value)) # NoMonth
         => (result.at = "exact"
               /\ result.month = match_fallback(normalize(value)))
    /\ result.at \in {"fuzzy", "reject"}
         => (result.ok <=>
               \E p \in Distances(normalize(value)) : 4 * p[2] <= p[3])
    /\ normalize(value) = <<>> => ~result.ok

\* "jne" is at distance 1 of "june", exactly a quarter of its length, and is June
C10_Witness ==
  /\ Returned
  /\ value = <<106, 110, 101>>
  /\ 4 * Distance(value, 6) = Longest(value, 6)
  /\ result.ok /\ result.month = "June" /\ result.at = "fuzzy"

====
